---- MODULE Spec2Model ----
(***************************************************************************)
(* Model of src/app.py: the mailing-label generator.                       *)
(*                                                                         *)
(*   process_address   (lines 45-72)   address normalisation               *)
(*   generate_word_doc (lines 81-178)  2-column label table                *)
(*   Streamlit script  (lines 188-227) upload / validate / generate flow   *)
(*                                                                         *)
(* Strings are sequences of characters.  Characters are written in ASCII:  *)
(* CJK characters by their pinyin ("hua" "lian" "shi" is U+82B1 U+84EE     *)
(* U+5E02), the full-width parentheses U+FF08 / U+FF09 as "FW(" / "FW)",   *)
(* the line feed as "LF".                                                  *)
(***************************************************************************)
EXTENDS Integers, Sequences, FiniteSets, TLC

VARIABLES
    raw,            \* process_address: the argument raw_address
    result,         \* process_address: what the call produced
    apc,            \* process_address: "ready" before the call, "done" after
    uploaded_file,  \* st.file_uploader value (line 188)
    pc,             \* position of the Streamlit script run
    clicked,        \* st.button returns True in the run a click triggered
    df,             \* the loaded DataFrame (line 192)
    shown,          \* the status element rendered by the current run
    button,         \* TRUE when the generate button is rendered (line 208)
    doc,            \* the Document built by generate_word_doc
    idx,            \* loop position of df.iterrows() (line 110)
    placements,     \* history: the (r, c) computed for each record, in order
    loads,          \* history: load_excel_with_auto_header calls in this run
    invoked         \* history: generate_word_doc was called for this upload

addrVars == <<raw, result, apc>>
appVars == <<uploaded_file, pc, clicked, df, shown, button, doc, idx,
             placements, loads, invoked>>
vars == <<raw, result, apc, uploaded_file, pc, clicked, df, shown, button,
          doc, idx, placements, loads, invoked>>

----------------------------------------------------------------------------
(* Bounds *)

MaxPieces == 4
MaxRecords == 17

----------------------------------------------------------------------------
(* Characters and Python string primitives *)

Min(S) == CHOOSE x \in S : \A y \in S : x <= y
Max(S) == CHOOSE x \in S : \A y \in S : x >= y

LF == "LF"
Whitespace == {" ", LF}
Digits == {"0", "1", "2", "3", "4", "5", "6", "7", "8", "9"}
OpenParens == {"(", "FW("}
CloseParens == {")", "FW)"}

\* str.strip(): drop leading and trailing whitespace
Strip(s) ==
    LET keep == {i \in 1..Len(s) : s[i] \notin Whitespace}
    IN  IF keep = {} THEN <<>> ELSE SubSeq(s, Min(keep), Max(keep))

\* the `in` operator on two strings: t occurs in s as a substring
Contains(s, t) ==
    \E i \in 1..(Len(s) - Len(t) + 1) : SubSeq(s, i, i + Len(t) - 1) = t

\* Python values handed to process_address
StrVal(s) == [type |-> "str", chars |-> s]
NonStrings == {[type |-> "NoneType", chars |-> <<>>],
               [type |-> "float", chars |-> <<>>],
               [type |-> "int", chars |-> <<>>]}

----------------------------------------------------------------------------
(* process_address, src/app.py lines 45-72 *)

BlankZip == <<" ", " ", " ">>

Returned(zip, body) == [status |-> "returned", zip |-> zip, body |-> body]
NoResult == [status |-> "pending", zip |-> <<>>, body |-> <<>>]

\* a call without the isinstance guard: None.strip() raises AttributeError
NonStringRaise == [status |-> "raised", zip |-> <<>>, body |-> <<>>]

\* lines 47-48: if not isinstance(raw_address, str): return "   ", ""
NonStringReturn == Returned(BlankZip, <<>>)

\* line 52: re.match(r'^[\(FW(]?(\d{3})[\)FW)]?(.*)', raw_address)
\* The optional parentheses are greedy; `.` matches anything but a line
\* feed, so group 2 ends before the first line feed.
re_match(s) ==
    LET p == IF Len(s) >= 1 /\ s[1] \in OpenParens THEN 1 ELSE 0
        ok == Len(s) >= p + 3 /\ \A i \in (p + 1)..(p + 3) : s[i] \in Digits
        q == IF Len(s) >= p + 4 /\ s[p + 4] \in CloseParens THEN 1 ELSE 0
        start == p + 3 + q + 1
        nl == {i \in start..Len(s) : s[i] = LF}
        stop == IF nl = {} THEN Len(s) ELSE Min(nl) - 1
    IN  IF ok
        THEN [matched |-> TRUE, group1 |-> SubSeq(s, p + 1, p + 3),
              group2 |-> SubSeq(s, start, stop)]
        ELSE [matched |-> FALSE, group1 |-> <<>>, group2 |-> <<>>]

\* lines 60-66: zip_map, a dict, iterated in insertion order (line 68)
zip_map ==
    << << <<"hua", "lian", "shi">>,    <<"9", "7", "0">> >>,
       << <<"xin", "cheng", "xiang">>, <<"9", "7", "1">> >>,
       << <<"xiu", "lin", "xiang">>,   <<"9", "7", "2">> >>,
       << <<"ji", "an", "xiang">>,     <<"9", "7", "3">> >>,
       << <<"shou", "feng1", "xiang">>, <<"9", "7", "4">> >>,
       << <<"feng4", "lin", "zhen">>,  <<"9", "7", "5">> >>,
       << <<"guang", "fu4", "xiang">>, <<"9", "7", "6">> >>,
       << <<"feng1", "bin", "xiang">>, <<"9", "7", "7">> >>,
       << <<"rui", "sui", "xiang">>,   <<"9", "7", "8">> >>,
       << <<"wan", "rong", "xiang">>,  <<"9", "7", "9">> >>,
       << <<"yu", "li", "zhen">>,      <<"9", "8", "1">> >>,
       << <<"zhuo", "xi", "xiang">>,   <<"9", "8", "2">> >>,
       << <<"fu", "li", "xiang">>,     <<"9", "8", "3">> >>,
       << <<"tai", "dong", "shi">>,    <<"9", "5", "0">> >> >>

\* a fall-through that returns the empty string for the postal code
FallbackReturnEmpty(s) == Returned(<<>>, s)

\* line 72: return "   ", raw_address
FallbackReturn(s) == Returned(BlankZip, s)

\* a scan in which the last matching entry of the table wins
lookup_zip_map_last(s) ==
    LET hits == {k \in 1..Len(zip_map) : Contains(s, zip_map[k][1])}
    IN  IF hits # {}
        THEN Returned(zip_map[Max(hits)][2], s)
        ELSE FallbackReturn(s)

\* lines 68-72: the first entry, in table order, whose town occurs in s
lookup_zip_map(s) ==
    LET hits == {k \in 1..Len(zip_map) : Contains(s, zip_map[k][1])}
    IN  IF hits # {}
        THEN Returned(zip_map[Min(hits)][2], s)
        ELSE FallbackReturn(s)

process_address(v) ==
    IF v.type # "str"
    THEN NonStringReturn
    ELSE LET s == Strip(v.chars)
             match == re_match(s)
         IN  IF match.matched
             THEN Returned(match.group1, Strip(match.group2))
             ELSE lookup_zip_map(s)

----------------------------------------------------------------------------
(* Inputs of process_address *)

Pieces ==
    { <<" ">>, <<LF>>, <<"(">>, <<")">>, <<"FW(">>, <<"FW)">>,
      <<"9", "5", "0">>, <<"1">>, <<"lu">>,
      <<"hua", "lian", "shi">>, <<"tai", "dong", "shi">> }

RECURSIVE Flatten(_)
Flatten(ps) == IF ps = <<>> THEN <<>> ELSE Head(ps) \o Flatten(Tail(ps))

PieceSeqs == UNION {[1..k -> Pieces] : k \in 0..MaxPieces}

Inputs == {StrVal(Flatten(ps)) : ps \in PieceSeqs} \cup NonStrings

Chars == UNION {{p[i] : i \in 1..Len(p)} : p \in Pieces}
        \cup UNION {{zip_map[k][2][i] : i \in 1..3} : k \in 1..Len(zip_map)}

----------------------------------------------------------------------------
(* generate_word_doc, src/app.py lines 81-178 *)

columns == 2
rows_target == 8

\* docx.shared.Cm(x) is int(x * 360000) English Metric Units; the argument
\* is given here in hundredths of a centimetre (Cm(29.7) is Cm(2970)).
Cm(hundredths) == (hundredths * 360000) \div 100

\* a row height one millimetre larger
row_height_val_38 == Cm(380)

\* line 108: row_height_val = Cm(3.7)
row_height_val == Cm(370)

\* a row count that truncates the remainder
rows_needed_floor(total_items) == total_items \div 2

\* line 98: rows_needed = (total_items + 1) // 2
rows_needed(total_items) == (total_items + 1) \div 2

\* line 111: r = index // 2
RowOf(index) == index \div 2

\* a column index that fills each row right to left
ColOf_shifted(index) == (index + 1) % 2

\* line 112: c = index % 2
ColOf(index) == index % 2

\* lines 86-94: A4, all margins and distances zero
Section ==
    [page_height |-> Cm(2970), page_width |-> Cm(2100),
     top_margin |-> Cm(0), bottom_margin |-> Cm(0),
     left_margin |-> Cm(0), right_margin |-> Cm(0),
     header_distance |-> Cm(0), footer_distance |-> Cm(0)]

EmptyCell == [record |-> -1, name |-> <<>>, zip |-> <<>>, body |-> <<>>,
              width |-> 0]
AutoHeight == [rule |-> "AUTO", height |-> 0]

\* line 100: doc.add_table(rows=rows_needed, cols=2)
add_table(rows, cols) ==
    [rows |-> rows, cols |-> cols,
     cells |-> [rc \in (0..(rows - 1)) \X (0..(cols - 1)) |-> EmptyCell],
     heights |-> [r \in 0..(rows - 1) |-> AutoHeight]]

NoDoc == [created |-> FALSE, section |-> Section, table |-> add_table(0, 0)]

\* a row whose height is only a minimum
RowHeightAtLeast == [rule |-> "AT_LEAST", height |-> row_height_val]

\* lines 127-128: height_rule = EXACTLY, height = row_height_val
RowHeightExactly == [rule |-> "EXACTLY", height |-> row_height_val]

NaN == [type |-> "float", chars |-> <<>>]

\* str(value) of a cell read with dtype=str: the text, or 'nan' when missing
PyStr(v) == IF v.type = "str" THEN v.chars ELSE <<"n", "a", "n">>

\* lines 114-118: str(row_data.get(col, '')).strip(), 'nan' becomes ''
field(frame, rec, col) ==
    LET value == IF col \in frame.columns THEN rec[col] ELSE StrVal(<<>>)
        text == Strip(PyStr(value))
    IN  IF text = <<"n", "a", "n">> THEN <<>> ELSE text

----------------------------------------------------------------------------
(* load_excel_with_auto_header, src/app.py lines 20-43 *)

SampleAddrs ==
    << StrVal(<<"(", "9", "5", "0", ")", "tai", "dong", "shi", "lu">>),
       NaN,
       StrVal(<<"hua", "lian", "shi", "lu", " ">>),
       StrVal(<<"lu", "1">>) >>

SampleNames == << StrVal(<<"A">>), StrVal(<<" ", "B">>), NaN >>

RecordsOf(n, off) ==
    [i \in 1..n |-> [name |-> SampleNames[((i + off) % 3) + 1],
                     addr |-> SampleAddrs[((i + off) % 4) + 1]]]

NoFile == [present |-> FALSE, readable |-> "no", cols |-> {}, n |-> 0,
           off |-> 0]

\* the workbooks a user can upload: unreadable, readable for the first 20
\* rows only, or readable with the given header labels and n data rows
Files ==
    [present : {TRUE}, readable : {"no", "partly", "yes"},
     cols : SUBSET {"name", "addr"}, n : 0..MaxRecords, off : 0..1]

NoDf == [loaded |-> FALSE, columns |-> {}, records |-> <<>>]

\* lines 24-27: a failing first read returns None; lines 41/43: the second
\* read returns the frame (RangeIndex 0..n-1) or raises
load_excel_with_auto_header(file) ==
    CASE file.readable = "no" -> [outcome |-> "None", df |-> NoDf]
      [] file.readable = "partly" -> [outcome |-> "raised", df |-> NoDf]
      [] OTHER -> [outcome |-> "df",
                   df |-> [loaded |-> TRUE, columns |-> file.cols,
                           records |-> RecordsOf(file.n, file.off)]]

----------------------------------------------------------------------------
(* The Streamlit script, src/app.py lines 188-227.  Every user interaction *)
(* reruns the script from the top.                                         *)

required_cols == {"name", "addr"}

\* the script running on after the missing-column error
ColsErrorContinues == FALSE

\* line 204: st.stop() ends the run after the missing-column error
ColsErrorStops == TRUE

\* start of a script run: everything the previous run rendered is dropped
StartRun(file) ==
    /\ pc' = IF file.present THEN "load" ELSE "idle"
    /\ df' = NoDf
    /\ shown' = "none"
    /\ button' = FALSE
    /\ doc' = NoDoc
    /\ idx' = 0
    /\ placements' = <<>>
    /\ loads' = 0

\* line 188: the user uploads a workbook
Upload ==
    /\ pc = "idle"
    /\ \E f \in Files :
          /\ uploaded_file' = f
          /\ StartRun(f)
    /\ clicked' = FALSE
    /\ invoked' = FALSE
    /\ UNCHANGED addrVars

\* line 188: the user removes the workbook; line 190 then skips everything
ClearUpload ==
    /\ pc = "idle"
    /\ uploaded_file.present
    /\ uploaded_file' = NoFile
    /\ StartRun(NoFile)
    /\ clicked' = FALSE
    /\ invoked' = FALSE
    /\ UNCHANGED addrVars

\* line 208: the user presses the button, which exists only when rendered
ClickButton ==
    /\ pc = "idle"
    /\ button
    /\ clicked' = TRUE
    /\ StartRun(uploaded_file)
    /\ UNCHANGED <<uploaded_file, invoked>>
    /\ UNCHANGED addrVars

\* lines 192-196, and the handler of lines 226-227
LoadStep ==
    /\ pc = "load"
    /\ loads' = loads + 1
    /\ LET r == load_excel_with_auto_header(uploaded_file)
       IN  /\ df' = r.df
           /\ shown' = CASE r.outcome = "None" -> "err_read"
                         [] r.outcome = "raised" -> "exception"
                         [] OTHER -> shown
           /\ pc' = IF r.outcome = "df" THEN "validate" ELSE "idle"
    /\ UNCHANGED <<uploaded_file, clicked, button, doc, idx, placements,
                   invoked>>
    /\ UNCHANGED addrVars

\* lines 198-208
ValidateStep ==
    /\ pc = "validate"
    /\ LET missing == ~(required_cols \subseteq df.columns)
       IN  IF missing /\ ColsErrorStops
           THEN /\ shown' = "err_cols"
                /\ button' = FALSE
                /\ pc' = "idle"
           ELSE /\ shown' = "success"
                /\ button' = TRUE
                /\ pc' = IF clicked THEN "generate" ELSE "idle"
    /\ UNCHANGED <<uploaded_file, clicked, df, doc, idx, placements, loads,
                   invoked>>
    /\ UNCHANGED addrVars

\* line 210 and lines 83-108: the call, the page setup and the empty table
GenSetup ==
    /\ pc = "generate"
    /\ invoked' = TRUE
    /\ doc' = [created |-> TRUE, section |-> Section,
               table |-> add_table(rows_needed(Len(df.records)), 2)]
    /\ idx' = 0
    /\ pc' = "loop"
    /\ UNCHANGED <<uploaded_file, clicked, df, shown, button, placements,
                   loads>>
    /\ UNCHANGED addrVars

\* lines 110-164: one iteration of df.iterrows(); table.rows[r].cells[c]
\* raises IndexError outside the table, caught at line 226
PlaceRecord ==
    /\ pc = "loop"
    /\ idx < Len(df.records)
    /\ LET index == idx
           row_data == df.records[idx + 1]
           r == RowOf(index)
           c == ColOf(index)
           name == field(df, row_data, "name")
           raw_address == field(df, row_data, "addr")
           norm == process_address(StrVal(raw_address))
           table == doc.table
       IN  IF r < table.rows /\ c < table.cols
           THEN /\ doc' = [doc EXCEPT
                     !.table.cells[<<r, c>>] =
                         [record |-> index, name |-> name, zip |-> norm.zip,
                          body |-> norm.body, width |-> Cm(1050)],
                     !.table.heights[r] = RowHeightExactly]
                /\ placements' = Append(placements, <<r, c>>)
                /\ idx' = idx + 1
                /\ UNCHANGED <<pc, shown>>
           ELSE /\ shown' = "exception"
                /\ pc' = "idle"
                /\ UNCHANGED <<doc, placements, idx>>
    /\ UNCHANGED <<uploaded_file, clicked, df, button, loads, invoked>>
    /\ UNCHANGED addrVars

\* lines 166-178 and 212-224: doc.paragraphs[-1] raises IndexError when the
\* document body holds no paragraph (python-docx decides; both outcomes
\* are kept), otherwise the document is saved and offered for download
Finalize ==
    /\ pc = "loop"
    /\ idx = Len(df.records)
    /\ \E body_paragraphs \in {0, 1} :
          shown' = IF body_paragraphs = 0 THEN "exception" ELSE "download"
    /\ pc' = "idle"
    /\ UNCHANGED <<uploaded_file, clicked, df, button, doc, idx, placements,
                   loads, invoked>>
    /\ UNCHANGED addrVars

Init ==
    /\ raw = StrVal(<<>>)
    /\ result = NoResult
    /\ apc = "ready"
    /\ uploaded_file = NoFile
    /\ pc = "idle"
    /\ clicked = FALSE
    /\ df = NoDf
    /\ shown = "none"
    /\ button = FALSE
    /\ doc = NoDoc
    /\ idx = 0
    /\ placements = <<>>
    /\ loads = 0
    /\ invoked = FALSE

Next ==
    \/ Upload
    \/ ClearUpload
    \/ ClickButton
    \/ LoadStep
    \/ ValidateStep
    \/ GenSetup
    \/ PlaceRecord
    \/ Finalize

Spec == Init /\ [][Next]_vars

----------------------------------------------------------------------------
(* Specification of process_address as a function of its argument *)

AppIdle ==
    /\ uploaded_file = NoFile
    /\ pc = "idle"
    /\ clicked = FALSE
    /\ df = NoDf
    /\ shown = "none"
    /\ button = FALSE
    /\ doc = NoDoc
    /\ idx = 0
    /\ placements = <<>>
    /\ loads = 0
    /\ invoked = FALSE

InitAddr ==
    /\ raw \in Inputs
    /\ result = NoResult
    /\ apc = "ready"
    /\ AppIdle

CallProcessAddress ==
    /\ apc = "ready"
    /\ result' = process_address(raw)
    /\ apc' = "done"
    /\ UNCHANGED raw
    /\ UNCHANGED appVars

NextAddr == CallProcessAddress

SpecAddr == InitAddr /\ [][NextAddr]_vars

----------------------------------------------------------------------------
(* Properties of process_address *)

Called == apc = "done" /\ raw.type = "str"

\* the pattern ^\(?\d{3}\)? of the claim, with p = 1 when the parenthesis
\* is present
MatchesAt(s, p) ==
    /\ Len(s) >= p + 3
    /\ p = 1 => s[1] = "("
    /\ \A i \in (p + 1)..(p + 3) : s[i] \in Digits

\* a leading 3-digit code, bare or after an ASCII or full-width parenthesis
HasLeadingCode(s) ==
    \E p \in {0, 1} :
        /\ Len(s) >= p + 3
        /\ p = 1 => s[1] \in {"(", "FW("}
        /\ \A i \in (p + 1)..(p + 3) : s[i] \in Digits

ContainsTown(s) == \E k \in 1..Len(zip_map) : Contains(s, zip_map[k][1])

\* C4 (as stated): for every raw address matching ^\(?\d{3}\)?.* the postal
\* code is the 3 leading digits and the body is the whole remainder of the
\* string after the matched prefix (the code and the parenthesis closing
\* it, ASCII or full-width), trimmed.
C4_BodyIsRemainder ==
    \A p \in {0, 1} :
        (Called /\ MatchesAt(raw.chars, p)) =>
            LET s == raw.chars
                q == IF Len(s) >= p + 4 /\ s[p + 4] \in {")", "FW)"}
                     THEN 1 ELSE 0
            IN  /\ result.status = "returned"
                /\ result.zip = SubSeq(s, p + 1, p + 3)
                /\ result.body = Strip(SubSeq(s, p + 3 + q + 1, Len(s)))

\* C5: an address with no leading 3-digit code that contains a gazetteer
\* place name gets the code of the first table entry, in table order, whose
\* name occurs in it, and its body is the trimmed input, name not stripped.
C5_GazetteerFirstEntry ==
    (Called /\ ~HasLeadingCode(Strip(raw.chars)) /\ ContainsTown(raw.chars)) =>
        /\ result.status = "returned"
        /\ result.body = Strip(raw.chars)
        /\ \E k \in 1..Len(zip_map) :
              /\ Contains(raw.chars, zip_map[k][1])
              /\ \A j \in 1..(k - 1) : ~Contains(raw.chars, zip_map[j][1])
              /\ result.zip = zip_map[k][2]

\* two place names, the later table entry standing first in the string
C5_Witness ==
    /\ Called
    /\ ~HasLeadingCode(Strip(raw.chars))
    /\ Contains(raw.chars, <<"tai", "dong", "shi", "hua", "lian", "shi">>)
    /\ result.zip = <<"9", "7", "0">>

\* C6: an address with neither a leading 3-digit code nor a place name,
\* the empty string included, gets the 3-blank placeholder and the trimmed
\* input as body.
C6_BlankFallback ==
    (Called /\ ~HasLeadingCode(Strip(raw.chars)) /\ ~ContainsTown(raw.chars)) =>
        /\ result.status = "returned"
        /\ result.zip = <<" ", " ", " ">>
        /\ result.body = Strip(raw.chars)

C6_Witness ==
    /\ Called
    /\ ~HasLeadingCode(Strip(raw.chars))
    /\ ~ContainsTown(raw.chars)
    /\ Strip(raw.chars) # <<>>
    /\ Strip(raw.chars) # raw.chars
    /\ result.zip = <<" ", " ", " ">>

\* C7: every call returns, string argument or not; the postal code has
\* exactly 3 characters, all digits or all blanks, and the body is a string.
C7_Total ==
    apc = "done" =>
        /\ result.status = "returned"
        /\ Len(result.zip) = 3
        /\ \/ \A i \in 1..3 : result.zip[i] \in Digits
           \/ \A i \in 1..3 : result.zip[i] = " "
        /\ result.body \in Seq(Chars)

C7_Witness ==
    /\ apc = "done"
    /\ raw.type = "NoneType"
    /\ result = [status |-> "returned", zip |-> <<" ", " ", " ">>, body |-> <<>>]

----------------------------------------------------------------------------
(* Properties of generate_word_doc and of the script *)

total_records == Len(df.records)
Capacity == rows_target * columns

Filled(r, c) == doc.table.cells[<<r, c>>].record >= 0

\* the run has left generate_word_doc's loop over all records
LoopDone == doc.created /\ idx = total_records

\* C1 (as stated): with more than rows_target * columns records the
\* generation signals an Overflow error and produces no label sheet.
C1_OverflowSignalled ==
    (df.loaded /\ total_records > Capacity) =>
        /\ ~doc.created
        /\ shown # "download"
        /\ (pc = "idle" /\ clicked) => shown = "overflow"

\* C2: within capacity, record i is placed in cell (i // columns,
\* i % columns); no two records share a cell, the cells are filled in
\* row-major order, and all n records are placed when the run ends.
C2_RowMajorPlacement ==
    (doc.created /\ total_records <= Capacity) =>
        /\ Len(placements) = idx
        /\ \A i \in 0..(Len(placements) - 1) :
              /\ placements[i + 1] = <<i \div columns, i % columns>>
              /\ doc.table.cells[placements[i + 1]].record = i
        /\ \A i, j \in 1..Len(placements) :
              placements[i] = placements[j] => i = j
        /\ pc = "idle" => Len(placements) = total_records

C2_Witness ==
    /\ LoopDone
    /\ pc = "idle"
    /\ total_records = 15
    /\ placements[15] = <<7, 0>>
    /\ ~Filled(7, 1)

\* C3: the table has ceil(n / columns) rows: rows * columns >= n and
\* rows * columns - n < columns.
C3_RowsIsCeiling ==
    doc.created =>
        /\ doc.table.rows * columns >= total_records
        /\ doc.table.rows * columns - total_records < columns

C3_Witness ==
    /\ doc.created
    /\ total_records = 5
    /\ doc.table.rows = 3

PrintableHeight ==
    doc.section.page_height - doc.section.top_margin
        - doc.section.bottom_margin

Abs(x) == IF x < 0 THEN -x ELSE x

\* C8 (as stated): every label row has height (page_height - top_margin -
\* bottom_margin) / rows_target, so rows_target rows deviate from the
\* printable height by at most one layout unit (1/100 cm).
C8_HeightTilesPage ==
    doc.created =>
        \A r \in 0..(doc.table.rows - 1) :
            doc.table.heights[r].rule = "EXACTLY" =>
                /\ doc.table.heights[r].height * rows_target
                       = PrintableHeight
                /\ Abs(rows_target * doc.table.heights[r].height
                       - PrintableHeight) <= Cm(1)

\* C8 (amended): every label row has the fixed height 3.7 cm (1332000
\* EMU); rows_target such rows total 29.6 cm, which fits the printable
\* height of 29.7 cm and falls short of it by 0.1 cm, ten layout units.
C8_FixedHeightWithSlack ==
    doc.created =>
        \A r \in 0..(doc.table.rows - 1) :
            (\E c \in 0..(columns - 1) : Filled(r, c)) =>
                /\ doc.table.heights[r].rule = "EXACTLY"
                /\ doc.table.heights[r].height = 1332000
                /\ PrintableHeight = 10692000
                /\ PrintableHeight
                       - rows_target * doc.table.heights[r].height
                       = 10 * Cm(1)

C8_Witness ==
    /\ LoopDone
    /\ total_records = Capacity
    /\ doc.table.rows = rows_target
    /\ doc.table.heights[rows_target - 1].height = 1332000

BadUpload ==
    /\ uploaded_file.present
    /\ \/ uploaded_file.readable # "yes"
       \/ ~({"name", "addr"} \subseteq uploaded_file.cols)

\* C9: when the workbook cannot be read or lacks a required column, the
\* failure is shown, generate_word_doc is never invoked for that upload,
\* no document is built, and the load is attempted once per run.
C9_NoGenerationAfterInputError ==
    BadUpload =>
        /\ ~invoked
        /\ ~doc.created
        /\ pc \notin {"generate", "loop"}
        /\ loads <= 1
        /\ ~button
        /\ pc = "idle" => shown \in {"err_read", "err_cols", "exception"}

C9_Witness ==
    /\ BadUpload
    /\ uploaded_file.readable = "yes"
    /\ uploaded_file.n > 0
    /\ pc = "idle"
    /\ shown = "err_cols"

\* C10: after the loop over n >= 1 records every row of the table holds a
\* record and has height rule EXACTLY with the fixed row height; the only
\* cell that can be unfilled is the last cell of the last row, and only
\* when n is odd.
C10_EveryRowSized ==
    (LoopDone /\ total_records >= 1) =>
        /\ \A r \in 0..(doc.table.rows - 1) :
              /\ Filled(r, 0)
              /\ doc.table.heights[r].rule = "EXACTLY"
              /\ doc.table.heights[r].height = Cm(370)
        /\ \A r \in 0..(doc.table.rows - 1), c \in 0..(columns - 1) :
              ~Filled(r, c) =>
                  /\ r = doc.table.rows - 1
                  /\ c = columns - 1
                  /\ total_records % 2 = 1

C10_Witness ==
    /\ LoopDone
    /\ total_records = 3
    /\ doc.table.rows = 2
    /\ doc.table.heights[1].rule = "EXACTLY"
    /\ ~Filled(1, 1)

====
